---- MODULE Spec2Model ----
(***************************************************************************)
(* GhostPet3D asset generation tool (Tools/AIGeneration).                  *)
(*                                                                         *)
(* The model follows regenerate_all_assets.py: the asset registry          *)
(* GAME_ASSETS, the resolver get_assets_to_generate, the generation client *)
(* AssetGenerator.generate_image / download_image and the batch loop and   *)
(* final report of main().                                                 *)
(***************************************************************************)
EXTENDS Integers, Sequences, FiniteSets, TLC

\* ------------------------------------------------------------------ bounds

\* longest --asset name list drawn for a run
MaxNames == 2

\* longest work list a modelled run drives through the batch loop
MaxItems == 3

\* source paths that may be missing when the copy tool really copies
MaxMissing == 1

\* copies that may fail in one run of the copy tool
MaxCopyFailures == 1

\* ---------------------------------------------------------------- registry

\* args.category / args.asset when the option is not given (Python None)
None == "None"

\* FOLDERS: category -> folder path
FOLDERS ==
    [c \in {"characters", "weapons", "ui_elements", "effects"} |->
        CASE c = "characters"  -> "Assets/GeneratedAssets/characters"
          [] c = "weapons"     -> "Assets/GeneratedAssets/weapons"
          [] c = "ui_elements" -> "Assets/GeneratedAssets/ui_elements"
          [] c = "effects"     -> "Assets/GeneratedAssets/effects"]

\* GAME_ASSETS: an insertion-ordered dict of insertion-ordered dicts, kept as
\* a sequence of categories, each a sequence of (name, asset_data) entries.
\* asset_data keeps the filename; the prompt text takes no part in control.
GAME_ASSETS ==
    << [category |-> "characters",
        assets |-> << [name |-> "player_character", data |-> [filename |-> "player_character.png"]],
                      [name |-> "basic_ghost",      data |-> [filename |-> "basic_ghost.png"]],
                      [name |-> "strong_ghost",     data |-> [filename |-> "strong_ghost.png"]] >>],
       [category |-> "weapons",
        assets |-> << [name |-> "flying_sword",     data |-> [filename |-> "flying_sword.png"]],
                      [name |-> "sword_energy",     data |-> [filename |-> "sword_energy.png"]] >>],
       [category |-> "effects",
        assets |-> << [name |-> "sword_trail",      data |-> [filename |-> "sword_trail.png"]],
                      [name |-> "hit_effect",       data |-> [filename |-> "hit_effect.png"]],
                      [name |-> "enemy_death",      data |-> [filename |-> "enemy_death.png"]] >>],
       [category |-> "ui_elements",
        assets |-> << [name |-> "health_bar_frame", data |-> [filename |-> "health_bar_frame.png"]],
                      [name |-> "score_panel",      data |-> [filename |-> "score_panel.png"]],
                      [name |-> "sword_icon",       data |-> [filename |-> "sword_icon.png"]] >>] >>

\* `asset_name in assets` for one category dict
HasAsset(cat, asset_name) ==
    \E k \in 1..Len(cat.assets) : cat.assets[k].name = asset_name

\* `assets[asset_name]`
AssetData(cat, asset_name) ==
    cat.assets[CHOOSE k \in 1..Len(cat.assets) : cat.assets[k].name = asset_name].data

\* `args.category in GAME_ASSETS`
HasCategory(G, c) == \E k \in 1..Len(G) : G[k].category = c

\* `GAME_ASSETS[args.category]`
CategoryOf(G, c) == G[CHOOSE k \in 1..Len(G) : G[k].category = c]

\* ---------------------------------------------------------------- resolver

\* variant: the inner loop has no break, the last category that holds the
\* name wins
RECURSIVE FindCategoryLast(_, _, _)
FindCategoryLast(G, c, asset_name) ==
    IF c > Len(G) THEN 0
    ELSE IF FindCategoryLast(G, c + 1, asset_name) # 0
    THEN FindCategoryLast(G, c + 1, asset_name)
    ELSE IF HasAsset(G[c], asset_name) THEN c
    ELSE 0

\* the inner loop over GAME_ASSETS.items() with its break: the index of the
\* first category, from c on, that holds asset_name; 0 when the loop ends
\* with found = False
RECURSIVE FindCategory(_, _, _)
FindCategory(G, c, asset_name) ==
    IF c > Len(G) THEN 0
    ELSE IF HasAsset(G[c], asset_name) THEN c
    ELSE FindCategory(G, c + 1, asset_name)

\* variant: the first unknown name ends the loop
RECURSIVE ResolveNamesStop(_, _, _, _)
ResolveNamesStop(G, names, k, acc) ==
    IF k > Len(names) THEN acc
    ELSE LET asset_name == names[k]
             c == FindCategory(G, 1, asset_name)
         IN IF c # 0
            THEN ResolveNamesStop(G, names, k + 1,
                    [acc EXCEPT !.assets = Append(@,
                        << G[c].category, asset_name, AssetData(G[c], asset_name) >>)])
            ELSE [acc EXCEPT !.warnings = Append(@, << "AssetNotFound", asset_name >>)]

\* the outer loop over args.asset, from name k on: acc carries
\* assets_to_generate and the warnings written so far
RECURSIVE ResolveNames(_, _, _, _)
ResolveNames(G, names, k, acc) ==
    IF k > Len(names) THEN acc
    ELSE LET asset_name == names[k]
             c == FindCategory(G, 1, asset_name)
         IN IF c # 0
            THEN ResolveNames(G, names, k + 1,
                    [acc EXCEPT !.assets = Append(@,
                        << G[c].category, asset_name, AssetData(G[c], asset_name) >>)])
            ELSE ResolveNames(G, names, k + 1,
                    [acc EXCEPT !.warnings = Append(@, << "AssetNotFound", asset_name >>)])

\* variant: the category is not looked up, the first one is taken
ResolveCategoryAny(G, c) ==
    [assets |-> [k \in 1..Len(G[1].assets) |->
                    << c, G[1].assets[k].name, G[1].assets[k].data >>],
     warnings |-> << >>]

\* the category branch: every entry of the category, in dict order
ResolveCategory(G, c) ==
    IF HasCategory(G, c)
    THEN [assets |-> [k \in 1..Len(CategoryOf(G, c).assets) |->
                        << c, CategoryOf(G, c).assets[k].name, CategoryOf(G, c).assets[k].data >>],
          warnings |-> << >>]
    ELSE [assets |-> << >>, warnings |-> << << "UnknownCategory", c >> >>]

\* variant: the walk over the categories stops one short
RECURSIVE ResolveAllShort(_, _)
ResolveAllShort(G, c) ==
    IF c >= Len(G) THEN << >>
    ELSE [k \in 1..Len(G[c].assets) |->
            << G[c].category, G[c].assets[k].name, G[c].assets[k].data >>]
         \o ResolveAllShort(G, c + 1)

\* the else branch: every entry of every category, from category c on
RECURSIVE ResolveAll(_, _)
ResolveAll(G, c) ==
    IF c > Len(G) THEN << >>
    ELSE [k \in 1..Len(G[c].assets) |->
            << G[c].category, G[c].assets[k].name, G[c].assets[k].data >>]
         \o ResolveAll(G, c + 1)

\* variant: when no given name is registered the category is used
ResolveFallThrough(G, a) ==
    IF a.asset # << >> /\
       ResolveNames(G, a.asset, 1, [assets |-> << >>, warnings |-> << >>]).assets # << >>
    THEN ResolveNames(G, a.asset, 1, [assets |-> << >>, warnings |-> << >>])
    ELSE IF a.category # None
    THEN ResolveCategory(G, a.category)
    ELSE [assets |-> ResolveAll(G, 1), warnings |-> << >>]

\* get_assets_to_generate(args) with what it writes to the console:
\* explicit names first, then the category, then everything
Resolve(G, a) ==
    IF a.asset # << >>
    THEN ResolveNames(G, a.asset, 1, [assets |-> << >>, warnings |-> << >>])
    ELSE IF a.category # None
    THEN ResolveCategory(G, a.category)
    ELSE [assets |-> ResolveAll(G, 1), warnings |-> << >>]

\* list_all_assets(): the (category, name) lines it writes
RECURSIVE ListFrom(_, _)
ListFrom(G, c) ==
    IF c > Len(G) THEN << >>
    ELSE [k \in 1..Len(G[c].assets) |-> << G[c].category, G[c].assets[k].name >>]
         \o ListFrom(G, c + 1)

\* ------------------------------------------------------------------ inputs

\* GAME_ASSETS edited so that two names are declared in two categories each:
\* flying_sword in characters and weapons, player_character in characters
\* and ui_elements
DupAssets ==
    [GAME_ASSETS EXCEPT
        ![1].assets = Append(@, [name |-> "flying_sword",
                                 data |-> [filename |-> "flying_sword_held.png"]]),
        ![4].assets = Append(@, [name |-> "player_character",
                                 data |-> [filename |-> "player_portrait.png"]])]

\* the registries resolution is checked against
Registries == {GAME_ASSETS, DupAssets}

\* names given with --asset: two registered names of different categories
\* and one that is not registered
NamePool == {"player_character", "flying_sword", "nonexistent_asset"}

\* values of args.category: absent, the four registered categories, and one
\* that GAME_ASSETS does not hold
CategoryPool == {None, "characters", "weapons", "effects", "ui_elements", "props"}

RECURSIVE SeqsUpTo(_, _)
SeqsUpTo(S, n) ==
    IF n = 0 THEN {<< >>}
    ELSE SeqsUpTo(S, n - 1) \cup
         {Append(s, x) : s \in {t \in SeqsUpTo(S, n - 1) : Len(t) = n - 1}, x \in S}

\* parse_arguments(): the namespace (asset, category, list); an absent
\* --asset is the empty sequence (both are falsy)
ArgsSpace ==
    [asset : SeqsUpTo(NamePool, MaxNames), category : CategoryPool, list : BOOLEAN]

\* ------------------------------------------------------------------- state

VARIABLES
    registry,           \* the module-level dict GAME_ASSETS
    pc,                 \* where main() stands
    args,               \* the parsed command line
    assets_to_generate, \* the work list: << category, name, asset_data >>
    warnings,           \* what resolution wrote: << kind, name >>
    listed,             \* what list_all_assets wrote
    dirs,               \* folders that exist on disk
    files,              \* path -> the file at that path
    i,                  \* enumerate's index of the item the loop stands at (0 before the loop)
    status,             \* per item: its stage in generate_image
    cause,              \* per item: what the service answered to its POST and to its GET
    ret,                \* per item: what generate_image returned to main
    gen_req,            \* per item: POSTs sent to /v1/images/generations
    dl_req,             \* per item: GETs sent to the image url
    total_assets,       \* len(assets_to_generate)
    success_count,      \* the loop's counter
    pauses,             \* time.sleep(..) calls made
    listing,            \* the items written under the final summary
    prompts_dict,       \* batch_generate's argument: category -> name -> prompt
    results,            \* batch_generate's result: category -> name -> filepath or None
    current_count,      \* batch_generate's progress counter
    total_count,        \* batch_generate's number of prompts
    now,                \* the wall clock, in seconds
    service,            \* how the service answers one generation and its download
    asset_client,       \* what AssetGenerator.generate_image did against it
    jimeng_client,      \* what JimengImageGenerator.generate_image did against it
    dry_run,            \* copy_essential_files: args.dry_run
    source_disk,        \* copy_essential_files: whether source_root exists, and the paths under it that do
    target_disk,        \* copy_essential_files: whether target_root exists, and what is at each path under it
    op,                 \* copy_essential_files: index in the list the current loop runs over
    total_operations,   \* copy_essential_files: len(COPY_FOLDERS) + len(COPY_FILES)
    copy_failures       \* copy_essential_files: copies that have failed so far

vars == << registry, pc, args, assets_to_generate, warnings, listed, dirs, files, i, status,
           cause, ret, gen_req, dl_req, total_assets, success_count, pauses, listing,
           prompts_dict, results, current_count, total_count, now,
           service, asset_client, jimeng_client,
           dry_run, source_disk, target_disk, op, total_operations, copy_failures >>

\* what only copy_essential_files.main changes
migration_vars == << dry_run, source_disk, target_disk, op, total_operations, copy_failures >>

\* what only the side-by-side run of the two clients changes
client_vars == << service, asset_client, jimeng_client >>

\* what only JimengImageGenerator.batch_generate changes
batch_vars == << prompts_dict, results, current_count, total_count, now >>

\* what only regenerate_all_assets.main changes
main_vars == << registry, args, assets_to_generate, warnings, listed, i, ret,
                total_assets, success_count, listing >>

\* get_assets_to_generate(args): the list it returns
get_assets_to_generate(a) == Resolve(registry, a).assets

\* list_all_assets(): what it writes
list_all_assets == ListFrom(registry, 1)

\* what the generation service can do with one POST
GenResponses ==
    {"conn_error",  \* connection failure or timeout of session.post
     "http_error",  \* non-2xx status: raise_for_status raises HTTPError
     "bad_json",    \* 2xx, body is not JSON: response.json() raises
     "no_data",     \* 2xx, a JSON object without 'data'
     "empty_data",  \* 2xx, 'data' is an empty array
     "no_url",      \* 2xx, 'data'[0] is an object without 'url'
     "ok"}          \* 2xx, 'data'[0]['url'] is there

\* what the download of one url can do
DownloadResponses ==
    {"dl_conn_error",  \* connection failure or timeout of requests.get
     "dl_http_error",  \* non-2xx status: raise_for_status raises
     "dl_write_error", \* I/O error after open(filepath, 'wb')
     "dl_ok"}

Terminal == {"Succeeded", "GenerationFailed", "DownloadFailed"}

NoFile == [exists |-> FALSE, item |-> 0, complete |-> FALSE]

\* os.path.join(FOLDERS[category], filename)
FilePath(category, filename) == << FOLDERS[category], filename >>

\* every path a registry entry is written to
AllPaths ==
    UNION {{FilePath(GAME_ASSETS[c].category, GAME_ASSETS[c].assets[k].data.filename) :
                k \in 1..Len(GAME_ASSETS[c].assets)} : c \in 1..Len(GAME_ASSETS)}

\* --------------------------------------------------------- generation client

\* variant: a body that is not JSON is taken for a result
generate_image_unparsed(resp) ==
    CASE resp \in {"conn_error", "http_error"}            -> "return_false"
      [] resp \in {"no_data", "empty_data"}               -> "return_false"
      [] resp = "no_url"                                  -> "raise"
      [] resp \in {"ok", "bad_json"}                      -> "download"

\* AssetGenerator.generate_image, from the POST's result on: "return_false"
\* (an except clause or the else branch), "download" (the call of
\* download_image) or "raise" (an exception no except clause names: the
\* KeyError of result['data'][0]['url']). A body that is not JSON raises a
\* JSONDecodeError, which one of the two except clauses catches.
generate_image(resp) ==
    CASE resp \in {"conn_error", "http_error", "bad_json"} -> "return_false"
      [] resp \in {"no_data", "empty_data"}                 -> "return_false"
      [] resp = "no_url"                                    -> "raise"
      [] resp = "ok"                                        -> "download"

\* AssetGenerator.download_image: its return value; `except Exception`
\* turns every failure into False
download_image(resp) == resp = "dl_ok"

\* variant: a file that is already there is left as it is
WriteFileKeep(f, path, k, resp) ==
    IF f[path].exists THEN f
    ELSE CASE resp = "dl_ok" ->
                [f EXCEPT ![path] = [exists |-> TRUE, item |-> k, complete |-> TRUE]]
           [] resp = "dl_write_error" ->
                [f EXCEPT ![path] = [exists |-> TRUE, item |-> k, complete |-> FALSE]]
           [] OTHER -> f

\* the file at filepath after download_image: open(.., 'wb') truncates, and
\* an I/O error during the write leaves what was written so far
WriteFile(f, path, k, resp) ==
    CASE resp = "dl_ok"          -> [f EXCEPT ![path] = [exists |-> TRUE, item |-> k, complete |-> TRUE]]
      [] resp = "dl_write_error" -> [f EXCEPT ![path] = [exists |-> TRUE, item |-> k, complete |-> FALSE]]
      [] OTHER                   -> f

\* variant: the call makes no folder
makedirs_none(d, path) == d

\* os.makedirs(path, exist_ok=True): the folders that exist afterwards
makedirs(d, path) == d \cup {path}

\* create_folders(): os.makedirs(folder_path, exist_ok=True) for every folder
create_folders(d) == UNION {makedirs(d, FOLDERS[c]) : c \in DOMAIN FOLDERS}

\* no service behaviour is fixed beforehand
NoService == [gen_status |-> "none", body |-> "none", dl_status |-> "none", write |-> "none"]

\* copy_essential_files is not run: no project tree is looked at
NoDisk == [root |-> FALSE, paths |-> {}]

\* a client that was not called
NotCalled == [outcome |-> "unset", download |-> FALSE]

\* ---------------------------------------------------------------- main loop

\* variant: the counter moves for every item
TallyEveryItem(count, ok) == count + 1

\* `if generator.generate_image(...): success_count += 1`
Tally(count, ok) == IF ok THEN count + 1 ELSE count

\* variant: the pause is left out
AfterItemNoPause(idx, total) == "next"

\* `if i < total_assets: time.sleep(3)`, then back to the loop head
AfterItem(idx, total) == IF idx < total THEN "pause" ELSE "next"

\* variant: the loop takes the same item again
NextIndexRepeat(idx) == IF idx = 0 THEN 1 ELSE idx

\* enumerate(assets_to_generate, 1): the index of the item after item idx
NextIndex(idx) == idx + 1

\* no answer from the service yet
NoCause == [gen |-> "none", dl |-> "none"]

\* the items written under the summary: `if success_count > 0:` every entry
\* of assets_to_generate
ReportListing(assets, count) ==
    IF count > 0
    THEN [k \in 1..Len(assets) |-> << assets[k][1], assets[k][2] >>]
    ELSE << >>

\* the state main() starts in, the registry and the command line apart
InitState ==
    /\ pc = "start"
    /\ assets_to_generate = << >>
    /\ warnings = << >>
    /\ listed = << >>
    /\ dirs \in {{}, {FOLDERS[c] : c \in DOMAIN FOLDERS}}
    /\ files = [p \in AllPaths |-> NoFile]
    /\ i = 0
    /\ status = << >>
    /\ cause = << >>
    /\ ret = << >>
    /\ gen_req = << >>
    /\ dl_req = << >>
    /\ total_assets = 0
    /\ success_count = 0
    /\ pauses = 0
    /\ listing = << >>
    /\ prompts_dict = << >>
    /\ results = << >>
    /\ current_count = 0
    /\ total_count = 0
    /\ now = 0
    /\ dry_run = FALSE
    /\ source_disk = NoDisk
    /\ target_disk = NoDisk
    /\ op = 0
    /\ total_operations = 0
    /\ copy_failures = 0
    /\ service = NoService
    /\ asset_client = NotCalled
    /\ jimeng_client = NotCalled

Init ==
    /\ registry = GAME_ASSETS
    /\ args \in {a \in ArgsSpace : Len(get_assets_to_generate(a)) <= MaxItems}
    /\ InitState

\* main() from any command line, over each registry
InitResolve ==
    /\ registry \in Registries
    /\ args \in ArgsSpace
    /\ InitState

\* variant: the return after the listing is missing
ListAssetsGoesOn ==
    /\ pc = "start"
    /\ args.list
    /\ listed' = list_all_assets
    /\ assets_to_generate' = get_assets_to_generate(args)
    /\ warnings' = Resolve(registry, args).warnings
    /\ pc' = "resolved"
    /\ UNCHANGED << registry, args, dirs, files, i, status, cause, ret,
                    gen_req, dl_req, total_assets, success_count, pauses, listing >>
    /\ UNCHANGED batch_vars
    /\ UNCHANGED client_vars
    /\ UNCHANGED migration_vars

\* `if args.list: list_all_assets(); return`
ListAssets ==
    /\ pc = "start"
    /\ args.list
    /\ listed' = list_all_assets
    /\ pc' = "done"
    /\ UNCHANGED << registry, args, assets_to_generate, warnings, dirs, files, i, status, cause, ret,
                    gen_req, dl_req, total_assets, success_count, pauses, listing >>
    /\ UNCHANGED batch_vars
    /\ UNCHANGED client_vars
    /\ UNCHANGED migration_vars

\* `assets_to_generate = get_assets_to_generate(args)`
ResolveAssets ==
    /\ pc = "start"
    /\ ~args.list
    /\ assets_to_generate' = get_assets_to_generate(args)
    /\ warnings' = Resolve(registry, args).warnings
    /\ pc' = "resolved"
    /\ UNCHANGED << registry, args, listed, dirs, files, i, status, cause, ret,
                    gen_req, dl_req, total_assets, success_count, pauses, listing >>
    /\ UNCHANGED batch_vars
    /\ UNCHANGED client_vars
    /\ UNCHANGED migration_vars

\* variant: the folders are made before the work list is looked at
NoAssetsAfterFolders ==
    /\ pc = "resolved"
    /\ assets_to_generate = << >>
    /\ dirs' = create_folders(dirs)
    /\ pc' = "done"
    /\ UNCHANGED << registry, args, assets_to_generate, warnings, listed, files, i, status, cause,
                    ret, gen_req, dl_req, total_assets, success_count, pauses, listing >>
    /\ UNCHANGED batch_vars
    /\ UNCHANGED client_vars
    /\ UNCHANGED migration_vars

\* `if not assets_to_generate: return`
NoAssets ==
    /\ pc = "resolved"
    /\ assets_to_generate = << >>
    /\ pc' = "done"
    /\ UNCHANGED << registry, args, assets_to_generate, warnings, listed, dirs, files, i, status, cause,
                    ret, gen_req, dl_req, total_assets, success_count, pauses, listing >>
    /\ UNCHANGED batch_vars
    /\ UNCHANGED client_vars
    /\ UNCHANGED migration_vars

\* generator.create_folders(), the counters, and the loop's first item
Setup ==
    /\ pc = "resolved"
    /\ assets_to_generate # << >>
    /\ dirs' = create_folders(dirs)
    /\ total_assets' = Len(assets_to_generate)
    /\ success_count' = 0
    /\ i' = 0
    /\ status' = [k \in 1..Len(assets_to_generate) |-> "Pending"]
    /\ cause' = [k \in 1..Len(assets_to_generate) |-> NoCause]
    /\ ret' = [k \in 1..Len(assets_to_generate) |-> "unset"]
    /\ gen_req' = [k \in 1..Len(assets_to_generate) |-> 0]
    /\ dl_req' = [k \in 1..Len(assets_to_generate) |-> 0]
    /\ pc' = "next"
    /\ UNCHANGED << registry, args, assets_to_generate, warnings, listed, files, pauses, listing >>
    /\ UNCHANGED batch_vars
    /\ UNCHANGED client_vars
    /\ UNCHANGED migration_vars

\* the loop takes its next item, generate_image is entered and the POST
\* goes out
PostRequest ==
    /\ pc = "next"
    /\ i < total_assets
    /\ i' = NextIndex(i)
    /\ status' = [status EXCEPT ![i'] = "Generating"]
    /\ gen_req' = [gen_req EXCEPT ![i'] = @ + 1]
    /\ pc' = "posted"
    /\ UNCHANGED << registry, args, assets_to_generate, warnings, listed, dirs, files, cause, ret,
                    dl_req, total_assets, success_count, pauses, listing >>
    /\ UNCHANGED batch_vars
    /\ UNCHANGED client_vars
    /\ UNCHANGED migration_vars

\* generate_image returns False before any download; main counts the item
GenerationFails ==
    /\ pc = "posted"
    /\ \E resp \in GenResponses :
        /\ generate_image(resp) = "return_false"
        /\ cause' = [cause EXCEPT ![i].gen = resp]
    /\ status' = [status EXCEPT ![i] = "GenerationFailed"]
    /\ ret' = [ret EXCEPT ![i] = "False"]
    /\ success_count' = Tally(success_count, FALSE)
    /\ pc' = AfterItem(i, total_assets)
    /\ UNCHANGED << registry, args, assets_to_generate, warnings, listed, dirs, files, i,
                    gen_req, dl_req, total_assets, pauses, listing >>
    /\ UNCHANGED batch_vars
    /\ UNCHANGED client_vars
    /\ UNCHANGED migration_vars

\* generate_image raises an exception that neither it nor main catches: the
\* process ends with a traceback
GenerationRaises ==
    /\ pc = "posted"
    /\ \E resp \in GenResponses :
        /\ generate_image(resp) = "raise"
        /\ cause' = [cause EXCEPT ![i].gen = resp]
    /\ pc' = "crashed"
    /\ UNCHANGED << registry, args, assets_to_generate, warnings, listed, dirs, files, i, status, ret,
                    gen_req, dl_req, total_assets, success_count, pauses, listing >>
    /\ UNCHANGED batch_vars
    /\ UNCHANGED client_vars
    /\ UNCHANGED migration_vars

\* generate_image got a url and calls download_image: the GET goes out
StartDownload ==
    /\ pc = "posted"
    /\ \E resp \in GenResponses :
        /\ generate_image(resp) = "download"
        /\ cause' = [cause EXCEPT ![i].gen = resp]
    /\ status' = [status EXCEPT ![i] = "Downloading"]
    /\ dl_req' = [dl_req EXCEPT ![i] = @ + 1]
    /\ pc' = "fetching"
    /\ UNCHANGED << registry, args, assets_to_generate, warnings, listed, dirs, files, i, ret,
                    gen_req, total_assets, success_count, pauses, listing >>
    /\ UNCHANGED batch_vars
    /\ UNCHANGED client_vars
    /\ UNCHANGED migration_vars

\* download_image writes the file and returns; generate_image returns its
\* result; main counts the item
DownloadReturns ==
    /\ pc = "fetching"
    /\ \E resp \in DownloadResponses :
        /\ files' = WriteFile(files,
                        FilePath(assets_to_generate[i][1], assets_to_generate[i][3].filename),
                        i, resp)
        /\ cause' = [cause EXCEPT ![i].dl = resp]
        /\ status' = [status EXCEPT ![i] =
                        IF download_image(resp) THEN "Succeeded" ELSE "DownloadFailed"]
        /\ ret' = [ret EXCEPT ![i] = IF download_image(resp) THEN "True" ELSE "False"]
        /\ success_count' = Tally(success_count, download_image(resp))
    /\ pc' = AfterItem(i, total_assets)
    /\ UNCHANGED << registry, args, assets_to_generate, warnings, listed, dirs, i,
                    gen_req, dl_req, total_assets, pauses, listing >>
    /\ UNCHANGED batch_vars
    /\ UNCHANGED client_vars
    /\ UNCHANGED migration_vars

\* time.sleep(3), then back to the loop head
Pause ==
    /\ pc = "pause"
    /\ pauses' = pauses + 1
    /\ pc' = "next"
    /\ UNCHANGED << registry, args, assets_to_generate, warnings, listed, dirs, files, i, status, cause,
                    ret, gen_req, dl_req, total_assets, success_count, listing >>
    /\ UNCHANGED batch_vars
    /\ UNCHANGED client_vars
    /\ UNCHANGED migration_vars

\* the loop is exhausted: the summary
Report ==
    /\ pc = "next"
    /\ i >= total_assets
    /\ listing' = ReportListing(assets_to_generate, success_count)
    /\ pc' = "done"
    /\ UNCHANGED << registry, args, assets_to_generate, warnings, listed, dirs, files, i, status, cause,
                    ret, gen_req, dl_req, total_assets, success_count, pauses >>
    /\ UNCHANGED batch_vars
    /\ UNCHANGED client_vars
    /\ UNCHANGED migration_vars

Next ==
    \/ ListAssets
    \/ ResolveAssets
    \/ NoAssets
    \/ Setup
    \/ PostRequest
    \/ GenerationFails
    \/ GenerationRaises
    \/ StartDownload
    \/ DownloadReturns
    \/ Pause
    \/ Report

Spec == Init /\ [][Next]_vars

\* main() up to the head of the loop
NextResolve ==
    \/ ListAssets
    \/ ResolveAssets
    \/ NoAssets
    \/ Setup

SpecResolve == InitResolve /\ [][NextResolve]_vars

\* ------------------------------------------- JimengImageGenerator (batch)

\* time.sleep(delay): batch_generate's default
delay == 2

\* GAME_PROMPTS: category -> name -> prompt, in insertion order; the prompt
\* texts only travel in the request body and are left out
GAME_PROMPTS ==
    << [category |-> "ui_elements",
        prompts  |-> << "health_bar_frame", "health_fill", "score_panel",
                        "sword_status_panel", "pause_menu_bg" >>],
       [category |-> "characters",
        prompts  |-> << "basic_ghost", "strong_ghost", "player_character" >>],
       [category |-> "weapons",
        prompts  |-> << "flying_sword", "sword_trail", "hit_effect" >>] >>

\* os.path.join(OUTPUT_DIR, category)
CategoryDir(category) ==
    CASE category = "ui_elements" -> "Assets/GeneratedAssets/ui_elements"
      [] category = "characters"  -> "Assets/GeneratedAssets/characters"
      [] category = "weapons"     -> "Assets/GeneratedAssets/weapons"

\* {category: GAME_PROMPTS[category]}: the dict main passes for choices 3-5
OnlyCategory(P, category) == SelectSeq(P, LAMBDA e : e.category = category)

\* a prompt dict with each category cut to its first n names
CutTo(P, n) ==
    [c \in 1..Len(P) |->
        [category |-> P[c].category,
         prompts  |-> SubSeq(P[c].prompts, 1,
                             IF n < Len(P[c].prompts) THEN n ELSE Len(P[c].prompts))]]

\* sum(len(prompts) for prompts in prompts_dict.values()), from category c on
RECURSIVE CountPrompts(_, _)
CountPrompts(P, c) ==
    IF c > Len(P) THEN 0 ELSE Len(P[c].prompts) + CountPrompts(P, c + 1)

\* the dicts batch_generate is run on: those main passes, cut short
PromptDicts ==
    { d \in { CutTo(Q, n) :
                Q \in { GAME_PROMPTS,
                        OnlyCategory(GAME_PROMPTS, "ui_elements"),
                        OnlyCategory(GAME_PROMPTS, "characters"),
                        OnlyCategory(GAME_PROMPTS, "weapons") },
                n \in 1..MaxItems } :
        CountPrompts(d, 1) <= MaxItems }

\* the (category, name) the nested loops stand at on their k-th pass
RECURSIVE ItemAt(_, _, _)
ItemAt(P, c, k) ==
    IF k <= Len(P[c].prompts)
    THEN << P[c].category, P[c].prompts[k] >>
    ELSE ItemAt(P, c + 1, k - Len(P[c].prompts))

\* JimengImageGenerator.generate_image up to the image url: any exception
\* and any status other than 200 give None
Jimeng_generate_image(resp) ==
    IF resp = "ok" THEN "download" ELSE "return_none"

\* datetime.now().strftime("%Y%m%d_%H%M%S"): the clock to the second
Timestamp(t) == t

\* os.path.join(category_dir, f"{name}_{timestamp}.jpg")
TimestampedPath(category, name, t) == << CategoryDir(category), name, Timestamp(t) >>

\* the disk after JimengImageGenerator.download_image's open and write
Jimeng_WriteFile(f, path, k, resp) ==
    CASE resp = "dl_ok" ->
            (path :> [exists |-> TRUE, item |-> k, complete |-> TRUE]) @@ f
      [] resp = "dl_write_error" ->
            (path :> [exists |-> TRUE, item |-> k, complete |-> FALSE]) @@ f
      [] OTHER -> f

\* None where a filepath is expected (paths are tuples)
NoFilepath == << >>

\* variant: the path is returned once the file was opened
Jimeng_download_image_opened(path, resp) ==
    IF resp \in {"dl_ok", "dl_write_error"} THEN path ELSE NoFilepath

\* what download_image returns, and so what results[category][name] holds
Jimeng_download_image(path, resp) == IF resp = "dl_ok" THEN path ELSE NoFilepath

\* `if current_count < total_count: time.sleep(delay)`
BatchAfterItem(count, total) == IF count < total THEN "batch_pause" ELSE "batch_next"

\* batch_generate is called on one of the prompt dicts
InitBatch ==
    /\ registry = GAME_ASSETS
    /\ args = [asset |-> << >>, category |-> None, list |-> FALSE]
    /\ pc = "batch"
    /\ prompts_dict \in PromptDicts
    /\ assets_to_generate = << >>
    /\ warnings = << >>
    /\ listed = << >>
    /\ dirs \in {{}, {FOLDERS[c] : c \in DOMAIN FOLDERS}}
    /\ files = [p \in AllPaths |-> NoFile]
    /\ i = 0
    /\ status = << >>
    /\ cause = << >>
    /\ ret = << >>
    /\ gen_req = << >>
    /\ dl_req = << >>
    /\ total_assets = 0
    /\ success_count = 0
    /\ pauses = 0
    /\ listing = << >>
    /\ results = << >>
    /\ current_count = 0
    /\ total_count = 0
    /\ now = 0
    /\ dry_run = FALSE
    /\ source_disk = NoDisk
    /\ target_disk = NoDisk
    /\ op = 0
    /\ total_operations = 0
    /\ copy_failures = 0
    /\ service = NoService
    /\ asset_client = NotCalled
    /\ jimeng_client = NotCalled

\* results = {}; total_count = sum(..); current_count = 0
BatchGenerate ==
    /\ pc = "batch"
    /\ results' = << >>
    /\ total_count' = CountPrompts(prompts_dict, 1)
    /\ current_count' = 0
    /\ status' = [k \in 1..CountPrompts(prompts_dict, 1) |-> "Pending"]
    /\ cause' = [k \in 1..CountPrompts(prompts_dict, 1) |-> NoCause]
    /\ gen_req' = [k \in 1..CountPrompts(prompts_dict, 1) |-> 0]
    /\ dl_req' = [k \in 1..CountPrompts(prompts_dict, 1) |-> 0]
    /\ pc' = "batch_next"
    /\ UNCHANGED << prompts_dict, now, dirs, files, pauses >>
    /\ UNCHANGED main_vars
    /\ UNCHANGED client_vars
    /\ UNCHANGED migration_vars

\* the next (category, name): current_count += 1; generate_image posts
BatchPostRequest ==
    /\ pc = "batch_next"
    /\ current_count < total_count
    /\ current_count' = current_count + 1
    /\ status' = [status EXCEPT ![current_count'] = "Generating"]
    /\ gen_req' = [gen_req EXCEPT ![current_count'] = @ + 1]
    /\ pc' = "batch_posted"
    /\ UNCHANGED << prompts_dict, results, total_count, now, dirs, files, cause, dl_req, pauses >>
    /\ UNCHANGED main_vars
    /\ UNCHANGED client_vars
    /\ UNCHANGED migration_vars

\* generate_image returns None; results[category][name] = None
BatchGenerationFails ==
    /\ pc = "batch_posted"
    /\ \E resp \in GenResponses :
        /\ Jimeng_generate_image(resp) = "return_none"
        /\ cause' = [cause EXCEPT ![current_count].gen = resp]
    /\ status' = [status EXCEPT ![current_count] = "GenerationFailed"]
    /\ results' = (ItemAt(prompts_dict, 1, current_count) :> NoFilepath) @@ results
    /\ pc' = BatchAfterItem(current_count, total_count)
    /\ UNCHANGED << prompts_dict, current_count, total_count, now, dirs, files,
                    gen_req, dl_req, pauses >>
    /\ UNCHANGED main_vars
    /\ UNCHANGED client_vars
    /\ UNCHANGED migration_vars

\* generate_image has the url and calls download_image, which makes the
\* category folder and sends the GET
BatchStartDownload ==
    /\ pc = "batch_posted"
    /\ \E resp \in GenResponses :
        /\ Jimeng_generate_image(resp) = "download"
        /\ cause' = [cause EXCEPT ![current_count].gen = resp]
    /\ dirs' = makedirs(dirs, CategoryDir(ItemAt(prompts_dict, 1, current_count)[1]))
    /\ status' = [status EXCEPT ![current_count] = "Downloading"]
    /\ dl_req' = [dl_req EXCEPT ![current_count] = @ + 1]
    /\ pc' = "batch_fetching"
    /\ UNCHANGED << prompts_dict, results, current_count, total_count, now, files,
                    gen_req, pauses >>
    /\ UNCHANGED main_vars
    /\ UNCHANGED client_vars
    /\ UNCHANGED migration_vars

\* download_image reads the clock, writes the file and returns the path, or
\* returns None; results[category][name] = filepath
BatchDownloadReturns ==
    /\ pc = "batch_fetching"
    /\ \E resp \in DownloadResponses :
       \E t \in IF resp \in {"dl_ok", "dl_write_error"} THEN {now, now + 1} ELSE {now} :
         LET item == ItemAt(prompts_dict, 1, current_count)
             path == TimestampedPath(item[1], item[2], t)
         IN  /\ now' = t
             /\ files' = Jimeng_WriteFile(files, path, current_count, resp)
             /\ cause' = [cause EXCEPT ![current_count].dl = resp]
             /\ status' = [status EXCEPT ![current_count] =
                             IF Jimeng_download_image(path, resp) # NoFilepath
                             THEN "Succeeded" ELSE "DownloadFailed"]
             /\ results' = (item :> Jimeng_download_image(path, resp)) @@ results
    /\ pc' = BatchAfterItem(current_count, total_count)
    /\ UNCHANGED << prompts_dict, current_count, total_count, dirs, gen_req, dl_req, pauses >>
    /\ UNCHANGED main_vars
    /\ UNCHANGED client_vars
    /\ UNCHANGED migration_vars

\* time.sleep(delay)
BatchPause ==
    /\ pc = "batch_pause"
    /\ pauses' = pauses + 1
    /\ now' = now + delay
    /\ pc' = "batch_next"
    /\ UNCHANGED << prompts_dict, results, current_count, total_count, dirs, files,
                    status, cause, gen_req, dl_req >>
    /\ UNCHANGED main_vars
    /\ UNCHANGED client_vars
    /\ UNCHANGED migration_vars

\* the loops are through: return results
BatchReturn ==
    /\ pc = "batch_next"
    /\ current_count >= total_count
    /\ pc' = "batch_done"
    /\ UNCHANGED << prompts_dict, results, current_count, total_count, now, dirs, files,
                    status, cause, gen_req, dl_req, pauses >>
    /\ UNCHANGED main_vars
    /\ UNCHANGED client_vars
    /\ UNCHANGED migration_vars

NextBatch ==
    \/ BatchGenerate
    \/ BatchPostRequest
    \/ BatchGenerationFails
    \/ BatchStartDownload
    \/ BatchDownloadReturns
    \/ BatchPause
    \/ BatchReturn

SpecBatch == InitBatch /\ [][NextBatch]_vars

\* either script is run
InitTools == Init \/ InitBatch

NextTools == Next \/ NextBatch

SpecTools == InitTools /\ [][NextTools]_vars

\* --------------------------------------------- the two clients side by side

\* what the POST can come back with: no response at all, or a status
GenStatuses == {"conn_error", "200", "2xx", "3xx", "4xx5xx"}

\* what the body of the generation response can look like
BodyShapes == {"bad_json", "no_data", "empty_data", "no_url", "ok"}

\* what the GET of the image url can come back with
DownloadStatuses == {"conn_error", "200", "2xx", "3xx", "4xx5xx"}

\* how the write of the image goes
WriteResults == {"written", "write_error"}

ServiceBehaviours ==
    [gen_status : GenStatuses, body : BodyShapes,
     dl_status : DownloadStatuses, write : WriteResults]

\* response.raise_for_status(): raises for 400..599 only
raise_for_status(st) == st = "4xx5xx"

\* AssetGenerator.generate_image: how it takes the generation response
AssetGenerator_response(b) ==
    IF b.gen_status = "conn_error" THEN "conn_error"
    ELSE IF raise_for_status(b.gen_status) THEN "http_error"
    ELSE b.body

\* AssetGenerator.download_image: how it takes the download
AssetGenerator_download(b) ==
    IF b.dl_status = "conn_error" THEN "dl_conn_error"
    ELSE IF raise_for_status(b.dl_status) THEN "dl_http_error"
    ELSE IF b.write = "write_error" THEN "dl_write_error"
    ELSE "dl_ok"

\* JimengImageGenerator.generate_image: `if response.status_code == 200`
Jimeng_response(b) ==
    IF b.gen_status = "conn_error" THEN "conn_error"
    ELSE IF b.gen_status # "200" THEN "http_error"
    ELSE b.body

\* JimengImageGenerator.download_image: `if response.status_code == 200`
Jimeng_download(b) ==
    IF b.dl_status = "conn_error" THEN "dl_conn_error"
    ELSE IF b.dl_status # "200" THEN "dl_http_error"
    ELSE IF b.write = "write_error" THEN "dl_write_error"
    ELSE "dl_ok"

\* AssetGenerator.generate_image against service behaviour b: True, False or
\* an exception, and whether the GET was sent
AssetGenerator_generate_image(b) ==
    CASE generate_image(AssetGenerator_response(b)) = "return_false" ->
            [outcome |-> "failed", download |-> FALSE]
      [] generate_image(AssetGenerator_response(b)) = "raise" ->
            [outcome |-> "raised", download |-> FALSE]
      [] generate_image(AssetGenerator_response(b)) = "download" ->
            [outcome  |-> IF download_image(AssetGenerator_download(b))
                          THEN "succeeded" ELSE "failed",
             download |-> TRUE]

\* JimengImageGenerator.generate_image against service behaviour b: a path
\* or None, and whether the GET was sent
JimengImageGenerator_generate_image(b) ==
    CASE Jimeng_generate_image(Jimeng_response(b)) = "return_none" ->
            [outcome |-> "failed", download |-> FALSE]
      [] Jimeng_generate_image(Jimeng_response(b)) = "download" ->
            [outcome  |-> IF Jimeng_download_image(<< "path" >>, Jimeng_download(b)) # NoFilepath
                          THEN "succeeded" ELSE "failed",
             download |-> TRUE]

\* one item is given to both clients against the same service behaviour
InitClients ==
    /\ registry = GAME_ASSETS
    /\ args = [asset |-> << >>, category |-> None, list |-> FALSE]
    /\ pc = "clients"
    /\ service \in ServiceBehaviours
    /\ asset_client = NotCalled
    /\ jimeng_client = NotCalled
    /\ prompts_dict = << >>
    /\ assets_to_generate = << >>
    /\ warnings = << >>
    /\ listed = << >>
    /\ dirs = {}
    /\ files = [p \in AllPaths |-> NoFile]
    /\ i = 0
    /\ status = << >>
    /\ cause = << >>
    /\ ret = << >>
    /\ gen_req = << >>
    /\ dl_req = << >>
    /\ total_assets = 0
    /\ success_count = 0
    /\ pauses = 0
    /\ listing = << >>
    /\ results = << >>
    /\ current_count = 0
    /\ total_count = 0
    /\ now = 0
    /\ dry_run = FALSE
    /\ source_disk = NoDisk
    /\ target_disk = NoDisk
    /\ op = 0
    /\ total_operations = 0
    /\ copy_failures = 0

CallAssetGenerator ==
    /\ pc = "clients"
    /\ asset_client = NotCalled
    /\ asset_client' = AssetGenerator_generate_image(service)
    /\ UNCHANGED << pc, service, jimeng_client, dirs, files, status, cause, gen_req, dl_req, pauses >>
    /\ UNCHANGED main_vars
    /\ UNCHANGED batch_vars
    /\ UNCHANGED migration_vars

CallJimengImageGenerator ==
    /\ pc = "clients"
    /\ jimeng_client = NotCalled
    /\ jimeng_client' = JimengImageGenerator_generate_image(service)
    /\ UNCHANGED << pc, service, asset_client, dirs, files, status, cause, gen_req, dl_req, pauses >>
    /\ UNCHANGED main_vars
    /\ UNCHANGED batch_vars
    /\ UNCHANGED migration_vars

NextClients ==
    \/ CallAssetGenerator
    \/ CallJimengImageGenerator

SpecClients == InitClients /\ [][NextClients]_vars

\* --------------------------------------------------- copy_essential_files

COPY_FOLDERS ==
    << "Assets/GeneratedAssets", "Assets/Scripts/Core", "Assets/Scripts/UI",
       "Assets/Scripts/Input", "Assets/Scripts/Health", "Tools" >>

COPY_FILES ==
    << "Assets/InputSystem_Actions.inputactions", "ProjectSettings/InputManager.asset",
       "ProjectSettings/TagManager.asset" >>

\* TEMPLATE_SCRIPTS.items(): (original, template), in insertion order; the
\* templates' folder name is written here in ASCII
TEMPLATE_SCRIPTS ==
    << << "Assets/Scripts/Player/PlayerController.cs", "docs/3D_templates/Player3DController.cs" >>,
       << "Assets/Scripts/Camera/CameraFollow.cs", "docs/3D_templates/ThirdPersonCamera.cs" >>,
       << "Assets/Scripts/Enemy/EnemyAI.cs", "docs/3D_templates/Enemy3DAI.cs" >> >>

\* os.path.dirname of the paths copy_file is given
dirname(path) ==
    CASE path = "Assets/InputSystem_Actions.inputactions"   -> "Assets"
      [] path = "ProjectSettings/InputManager.asset"        -> "ProjectSettings"
      [] path = "ProjectSettings/TagManager.asset"          -> "ProjectSettings"
      [] path = "Assets/Scripts/Player/PlayerController.cs" -> "Assets/Scripts/Player"
      [] path = "Assets/Scripts/Camera/CameraFollow.cs"     -> "Assets/Scripts/Camera"
      [] path = "Assets/Scripts/Enemy/EnemyAI.cs"           -> "Assets/Scripts/Enemy"

\* the paths under source_root the tool looks at
SourcePaths ==
    {COPY_FOLDERS[k] : k \in 1..Len(COPY_FOLDERS)} \cup
    {COPY_FILES[k] : k \in 1..Len(COPY_FILES)} \cup
    {TEMPLATE_SCRIPTS[k][2] : k \in 1..Len(TEMPLATE_SCRIPTS)}

\* the paths under target_root the tool may write
TargetPaths ==
    {COPY_FOLDERS[k] : k \in 1..Len(COPY_FOLDERS)} \cup
    {COPY_FILES[k] : k \in 1..Len(COPY_FILES)} \cup
    {TEMPLATE_SCRIPTS[k][1] : k \in 1..Len(TEMPLATE_SCRIPTS)}

\* a target project that already holds something at every such path
Populated == {<< path, "old" >> : path \in TargetPaths}

\* os.path.exists(path) on a disk: << path, content >> entries
Exists(d, path) == \E en \in d.paths : en[1] = path

\* the disk with `content` at path, whatever was there
Put(d, path, content) ==
    [d EXCEPT !.paths = {en \in @ : en[1] # path} \cup {<< path, content >>}]

\* os.makedirs(os.path.dirname(dest_path), exist_ok=True)
MakeParent(d, path) ==
    IF Exists(d, dirname(path)) THEN d ELSE Put(d, dirname(path), "dir")

\* how a copy can go: done, failed before anything was touched, or failed
\* part-way; failures are capped per run
CopyOutcomes(failed) ==
    IF failed < MaxCopyFailures THEN {"copied", "fail_before", "fail_midway"} ELSE {"copied"}

\* copy_folder: rmtree of an existing dest_path, then copytree
copy_folder(d, dest_path, outcome) ==
    CASE outcome = "copied"      -> Put(d, dest_path, "new")
      [] outcome = "fail_midway" -> Put(d, dest_path, "partial")
      [] OTHER                   -> d

\* copy_file: makedirs of the parent, then copy2
copy_file(d, dest_path, outcome) ==
    CASE outcome = "copied"      -> Put(MakeParent(d, dest_path), dest_path, "new")
      [] outcome = "fail_midway" -> Put(MakeParent(d, dest_path), dest_path, "partial")
      [] OTHER                   -> d

\* variant: the tool copies whatever the mode
PerformsAlways(dry) == TRUE

\* `if not args.dry_run`
Performs(dry) == ~dry

\* the loop goes to its next element, or the next loop starts
StepIndex(idx, len) == IF idx < len THEN idx + 1 ELSE 1

StepPc(idx, len, here, there) == IF idx < len THEN here ELSE there

\* what copy_essential_files.main leaves alone
tool_vars == << registry, args, assets_to_generate, warnings, listed, i, ret, total_assets,
                listing, dirs, files, status, cause, gen_req, dl_req, pauses >>

\* the tool is started on two project trees
InitMigrate ==
    /\ registry = GAME_ASSETS
    /\ args = [asset |-> << >>, category |-> None, list |-> FALSE]
    /\ pc = "migrate"
    /\ dry_run \in BOOLEAN
    /\ source_disk \in
            {[root |-> FALSE, paths |-> {}]} \cup
            {[root |-> TRUE, paths |-> {<< path, "old" >> : path \in S}] :
                S \in {T \in SUBSET SourcePaths :
                         dry_run \/ Cardinality(SourcePaths \ T) <= MaxMissing}}
    /\ target_disk \in {[root |-> FALSE, paths |-> {}],
                         [root |-> TRUE, paths |-> {}],
                         [root |-> TRUE, paths |-> Populated]}
    /\ op = 0
    /\ total_operations = 0
    /\ copy_failures = 0
    /\ service = NoService
    /\ asset_client = NotCalled
    /\ jimeng_client = NotCalled
    /\ prompts_dict = << >>
    /\ assets_to_generate = << >>
    /\ warnings = << >>
    /\ listed = << >>
    /\ dirs = {}
    /\ files = [p \in AllPaths |-> NoFile]
    /\ i = 0
    /\ status = << >>
    /\ cause = << >>
    /\ ret = << >>
    /\ gen_req = << >>
    /\ dl_req = << >>
    /\ total_assets = 0
    /\ success_count = 0
    /\ pauses = 0
    /\ listing = << >>
    /\ results = << >>
    /\ current_count = 0
    /\ total_count = 0
    /\ now = 0

\* `if not source_root.exists(): return` / `if not target_root.exists(): return`
RootMissing ==
    /\ pc = "migrate"
    /\ ~source_disk.root \/ ~target_disk.root
    /\ pc' = "migrated"
    /\ UNCHANGED << success_count, dry_run, source_disk, target_disk, op, total_operations,
                    copy_failures >>
    /\ UNCHANGED << tool_vars, batch_vars, client_vars >>

\* success_count = 0; total_operations = len(COPY_FOLDERS) + len(COPY_FILES)
CountOperations ==
    /\ pc = "migrate"
    /\ source_disk.root /\ target_disk.root
    /\ success_count' = 0
    /\ total_operations' = Len(COPY_FOLDERS) + Len(COPY_FILES)
    /\ op' = 1
    /\ pc' = "folders"
    /\ UNCHANGED << dry_run, source_disk, target_disk, copy_failures >>
    /\ UNCHANGED << tool_vars, batch_vars, client_vars >>

\* one pass of `for folder in COPY_FOLDERS`
CopyFolder ==
    /\ pc = "folders"
    /\ IF ~Exists(source_disk, COPY_FOLDERS[op])
       THEN UNCHANGED << success_count, target_disk, copy_failures >>
       ELSE IF ~Performs(dry_run)
       THEN /\ success_count' = success_count + 1
            /\ UNCHANGED << target_disk, copy_failures >>
       ELSE \E outcome \in CopyOutcomes(copy_failures) :
            /\ target_disk' = copy_folder(target_disk, COPY_FOLDERS[op], outcome)
            /\ success_count' = Tally(success_count, outcome = "copied")
            /\ copy_failures' = IF outcome = "copied" THEN copy_failures ELSE copy_failures + 1
    /\ op' = StepIndex(op, Len(COPY_FOLDERS))
    /\ pc' = StepPc(op, Len(COPY_FOLDERS), "folders", "files")
    /\ UNCHANGED << dry_run, source_disk, total_operations >>
    /\ UNCHANGED << tool_vars, batch_vars, client_vars >>

\* one pass of `for file_path in COPY_FILES`
CopyFile ==
    /\ pc = "files"
    /\ IF ~Exists(source_disk, COPY_FILES[op])
       THEN UNCHANGED << success_count, target_disk, copy_failures >>
       ELSE IF ~Performs(dry_run)
       THEN /\ success_count' = success_count + 1
            /\ UNCHANGED << target_disk, copy_failures >>
       ELSE \E outcome \in CopyOutcomes(copy_failures) :
            /\ target_disk' = copy_file(target_disk, COPY_FILES[op], outcome)
            /\ success_count' = Tally(success_count, outcome = "copied")
            /\ copy_failures' = IF outcome = "copied" THEN copy_failures ELSE copy_failures + 1
    /\ op' = StepIndex(op, Len(COPY_FILES))
    /\ pc' = StepPc(op, Len(COPY_FILES), "files", "templates")
    /\ UNCHANGED << dry_run, source_disk, total_operations >>
    /\ UNCHANGED << tool_vars, batch_vars, client_vars >>

\* one pass of `for original, template in TEMPLATE_SCRIPTS.items()`; after
\* the last one the closing lines are printed
CopyTemplate ==
    /\ pc = "templates"
    /\ IF ~Exists(source_disk, TEMPLATE_SCRIPTS[op][2]) \/ ~Performs(dry_run)
       THEN UNCHANGED << target_disk, copy_failures >>
       ELSE \E outcome \in CopyOutcomes(copy_failures) :
            /\ target_disk' = copy_file(MakeParent(target_disk, TEMPLATE_SCRIPTS[op][1]),
                                        TEMPLATE_SCRIPTS[op][1], outcome)
            /\ copy_failures' = IF outcome = "copied" THEN copy_failures ELSE copy_failures + 1
    /\ op' = StepIndex(op, Len(TEMPLATE_SCRIPTS))
    /\ pc' = StepPc(op, Len(TEMPLATE_SCRIPTS), "templates", "migrated")
    /\ UNCHANGED << success_count, dry_run, source_disk, total_operations >>
    /\ UNCHANGED << tool_vars, batch_vars, client_vars >>

NextMigrate ==
    \/ RootMissing
    \/ CountOperations
    \/ CopyFolder
    \/ CopyFile
    \/ CopyTemplate

SpecMigrate == InitMigrate /\ [][NextMigrate]_vars

\* ------------------------------------------------------------------ claims

\* main() has ended: by return, or by an uncaught exception
RunEnded == pc \in {"done", "crashed"}

\* the loop was entered in this run
BatchStarted == status # << >>

Items == 1..Len(status)

\* C1: in a batch run the failure of one work item never aborts the batch:
\* when the run has ended, every item of the work list has been processed
\* and has an outcome recorded.
C1_EveryItemHasOutcome ==
    (RunEnded /\ BatchStarted) =>
        \A k \in 1..Len(assets_to_generate) : ret[k] \in {"True", "False"}

\* C2: for a work list of length N exactly N generation requests are issued,
\* one per item and never more, and a download request is issued for an item
\* exactly when its generation returned a reference, and at most once.
C2_RequestCounts ==
    BatchStarted =>
        /\ \A k \in Items : gen_req[k] <= 1 /\ dl_req[k] <= 1
        /\ \A k \in Items :
            dl_req[k] = 1 <=> status[k] \in {"Downloading", "Succeeded", "DownloadFailed"}
        /\ RunEnded => \A k \in 1..Len(assets_to_generate) : gen_req[k] = 1

\* C3: for a work list of length N exactly N-1 inter-item pauses occur (0 when
\* N <= 1), whether the items succeeded or failed.
C3_PauseCount ==
    (RunEnded /\ BatchStarted) => pauses = Len(assets_to_generate) - 1

\* C4: items are processed strictly in work-list order, one at a time: an
\* item leaves Pending only after the item before it reached a terminal state
\* and the pause between them elapsed, and no two items are in Generating or
\* Downloading at once.
C4_Sequential ==
    BatchStarted =>
        /\ Cardinality({k \in Items : status[k] \in {"Generating", "Downloading"}}) <= 1
        /\ \A k \in Items : k + 1 \in Items /\ status[k + 1] # "Pending" =>
                /\ status[k] \in Terminal
                /\ pauses >= k

\* the second item is in flight after the first one ended and a pause passed
C4_Witness ==
    /\ BatchStarted
    /\ Len(status) = 3
    /\ status[1] = "GenerationFailed"
    /\ status[2] = "Downloading"
    /\ status[3] = "Pending"
    /\ pauses = 1

\* the per-item transitions of the state machine
ItemTransitions ==
    { << "Pending", "Generating" >>,
      << "Generating", "GenerationFailed" >>,
      << "Generating", "Downloading" >>,
      << "Downloading", "DownloadFailed" >>,
      << "Downloading", "Succeeded" >> }

\* C5: an item changes state only along Pending -> Generating ->
\* (GenerationFailed | Downloading) -> (DownloadFailed | Succeeded); the three
\* terminal states have no way out.
C5_ItemStateMachine ==
    [][ BatchStarted =>
            \A k \in Items :
                status'[k] # status[k] => << status[k], status'[k] >> \in ItemTransitions ]_vars

\* all three terminal states occur in one run
C5_Witness ==
    /\ BatchStarted
    /\ Len(status) = 3
    /\ status[1] = "Succeeded"
    /\ status[2] = "GenerationFailed"
    /\ status[3] = "DownloadFailed"

\* the items in one of the given stages
InStage(S) == {k \in Items : status[k] \in S}

\* the summary was written for a batch
ReportWritten == pc = "done" /\ BatchStarted

\* C6: at the end of a batch the total equals the succeeded plus the failed
\* items and equals the length of the work list; during the batch the success
\* counter never exceeds the number of items processed so far.
C6_ReportTotals ==
    BatchStarted =>
        /\ success_count <= Cardinality(InStage(Terminal))
        /\ ReportWritten =>
            /\ total_assets = Len(assets_to_generate)
            /\ total_assets =
                success_count + Cardinality(InStage({"GenerationFailed", "DownloadFailed"}))

\* a finished batch of three with one success and two failures
C6_Witness ==
    /\ ReportWritten
    /\ total_assets = 3
    /\ success_count = 1
    /\ Cardinality(InStage({"GenerationFailed", "DownloadFailed"})) = 2

\* the (category, name) pairs of the items in stage S, in work-list order
RECURSIVE ItemsInStage(_, _)
ItemsInStage(S, k) ==
    IF k > Len(status) THEN << >>
    ELSE (IF status[k] \in S
          THEN << << assets_to_generate[k][1], assets_to_generate[k][2] >> >>
          ELSE << >>) \o ItemsInStage(S, k + 1)

\* C7: the final report partitions the work items by outcome and keeps
\* work-list order: the listing of generated items holds exactly the items
\* that succeeded, each with its category.
C7_ReportPartition ==
    ReportWritten => listing = ItemsInStage({"Succeeded"}, 1)

\* the error kinds of the specification, by what the service answered
ErrorKind(c) ==
    CASE c.gen \in {"conn_error", "http_error"}                        -> "NetworkError"
      [] c.gen = "bad_json"                                            -> "MalformedResponseError"
      [] c.gen \in {"no_data", "empty_data"}                           -> "EmptyResultError"
      [] c.gen = "ok" /\ c.dl \in DownloadResponses \ {"dl_ok"}        -> "DownloadError"
      [] OTHER                                                         -> "none"

Resolved == pc # "start" /\ ~args.list

\* the name is an entry of some category of GAME_ASSETS
Registered(asset_name) ==
    \E c \in 1..Len(GAME_ASSETS) : HasAsset(GAME_ASSETS[c], asset_name)

\* C9: for every explicit name list every name yields exactly one work item
\* or exactly one AssetNotFound warning; the work items are the registered
\* names in the order given, the warnings the unregistered ones, and an
\* unknown name does not stop the names after it.
C9_ExplicitNames ==
    (Resolved /\ args.asset # << >>) =>
        LET known   == SelectSeq(args.asset, LAMBDA n : Registered(n))
            unknown == SelectSeq(args.asset, LAMBDA n : ~Registered(n))
        IN /\ Len(assets_to_generate) + Len(warnings) = Len(args.asset)
           /\ Len(assets_to_generate) = Len(known)
           /\ \A k \in 1..Len(known) :
                /\ assets_to_generate[k][2] = known[k]
                /\ \E c \in 1..Len(GAME_ASSETS) :
                    /\ GAME_ASSETS[c].category = assets_to_generate[k][1]
                    /\ HasAsset(GAME_ASSETS[c], known[k])
           /\ warnings = [k \in 1..Len(unknown) |-> << "AssetNotFound", unknown[k] >>]

\* an unknown name first, a registered name after it
C9_Witness ==
    /\ Resolved
    /\ args.asset = << "nonexistent_asset", "flying_sword" >>
    /\ Len(assets_to_generate) = 1
    /\ assets_to_generate[1][2] = "flying_sword"
    /\ warnings = << << "AssetNotFound", "nonexistent_asset" >> >>

\* C10: for a category c alone, resolution returns either all entries of c in
\* registry order, each with category c, or, when c is not in the registry,
\* an empty work list with an UnknownCategory warning.
C10_CategorySelection ==
    (Resolved /\ args.asset = << >> /\ args.category # None) =>
        IF \E c \in 1..Len(GAME_ASSETS) : GAME_ASSETS[c].category = args.category
        THEN \E c \in 1..Len(GAME_ASSETS) :
                /\ GAME_ASSETS[c].category = args.category
                /\ Len(assets_to_generate) = Len(GAME_ASSETS[c].assets)
                /\ \A k \in 1..Len(assets_to_generate) :
                    /\ assets_to_generate[k][1] = args.category
                    /\ assets_to_generate[k][2] = GAME_ASSETS[c].assets[k].name
                    /\ assets_to_generate[k][3] = GAME_ASSETS[c].assets[k].data
                /\ warnings = << >>
        ELSE /\ assets_to_generate = << >>
             /\ warnings = << << "UnknownCategory", args.category >> >>

\* the weapons category resolved to its two entries
C10_Witness ==
    /\ Resolved
    /\ args.asset = << >>
    /\ args.category = "weapons"
    /\ Len(assets_to_generate) = 2
    /\ assets_to_generate[2][2] = "sword_energy"

\* the name is an entry of some category of the registry
Known(asset_name) == \E c \in 1..Len(registry) : HasAsset(registry[c], asset_name)

\* the number of entries of the categories declared before category c
RECURSIVE EntriesBefore(_, _)
EntriesBefore(G, c) ==
    IF c <= 1 THEN 0 ELSE EntriesBefore(G, c - 1) + Len(G[c - 1].assets)

\* C11: with neither names nor a category the work list holds every
\* (category, name) pair of the registry exactly once, in declaration order
\* (category order, then name order), so its length is the sum of the entry
\* counts of all categories.
C11_SelectAll ==
    (Resolved /\ args.asset = << >> /\ args.category = None) =>
        /\ Len(assets_to_generate) = EntriesBefore(registry, Len(registry) + 1)
        /\ \A c \in 1..Len(registry) : \A k \in 1..Len(registry[c].assets) :
            assets_to_generate[EntriesBefore(registry, c) + k] =
                << registry[c].category, registry[c].assets[k].name, registry[c].assets[k].data >>
        /\ \A j, k \in 1..Len(assets_to_generate) :
            j # k => << assets_to_generate[j][1], assets_to_generate[j][2] >> #
                     << assets_to_generate[k][1], assets_to_generate[k][2] >>

\* the whole of GAME_ASSETS selected: eleven items, sword_icon last
C11_Witness ==
    /\ Resolved
    /\ registry = GAME_ASSETS
    /\ args.asset = << >> /\ args.category = None
    /\ Len(assets_to_generate) = 11
    /\ assets_to_generate[4][2] = "flying_sword"
    /\ assets_to_generate[11] = << "ui_elements", "sword_icon", [filename |-> "sword_icon.png"] >>

\* C12: the three selection modes exclude each other with fixed precedence:
\* given names, the work list is the registered ones among them and nothing
\* of the category given with them (empty when none is registered); given
\* only a category, the work list is that category; given neither, it is the
\* whole registry.
C12_Precedence ==
    Resolved =>
        IF args.asset # << >>
        THEN LET known == SelectSeq(args.asset, LAMBDA n : Known(n))
             IN /\ Len(assets_to_generate) = Len(known)
                /\ \A k \in 1..Len(known) : assets_to_generate[k][2] = known[k]
                /\ \A w \in 1..Len(warnings) : warnings[w][1] = "AssetNotFound"
        ELSE IF args.category # None
        THEN /\ \A k \in 1..Len(assets_to_generate) : assets_to_generate[k][1] = args.category
             /\ \A c \in 1..Len(registry) :
                    registry[c].category = args.category =>
                        Len(assets_to_generate) = Len(registry[c].assets)
        ELSE Len(assets_to_generate) = EntriesBefore(registry, Len(registry) + 1)

\* an unknown name given together with a category: nothing is selected
C12_Witness ==
    /\ Resolved
    /\ args.asset = << "nonexistent_asset" >>
    /\ args.category = "weapons"
    /\ assets_to_generate = << >>
    /\ warnings = << << "AssetNotFound", "nonexistent_asset" >> >>

\* C13: name lookup scans the categories in declaration order and returns the
\* first match: each given name that is registered yields exactly one work
\* item, that of the first declared category holding the name, also when
\* later categories hold it too.
C13_FirstCategoryWins ==
    (Resolved /\ args.asset # << >>) =>
        LET known == SelectSeq(args.asset, LAMBDA n : Known(n))
        IN /\ Len(assets_to_generate) = Len(known)
           /\ \A k \in 1..Len(known) :
                \E c \in 1..Len(registry) :
                    /\ HasAsset(registry[c], known[k])
                    /\ \A d \in 1..(c - 1) : ~HasAsset(registry[d], known[k])
                    /\ assets_to_generate[k] =
                        << registry[c].category, known[k], AssetData(registry[c], known[k]) >>

\* player_character is declared in characters and in ui_elements, and
\* flying_sword in characters and weapons: both resolve to characters
C13_Witness ==
    /\ Resolved
    /\ registry = DupAssets
    /\ args.asset = << "flying_sword", "player_character" >>
    /\ Len(assets_to_generate) = 2
    /\ assets_to_generate[1] = << "characters", "flying_sword", [filename |-> "flying_sword_held.png"] >>
    /\ assets_to_generate[2][1] = "characters"

\* the path item k of the work list is written to
DestPath(k) == FilePath(assets_to_generate[k][1], assets_to_generate[k][3].filename)

\* download_image of item k got as far as open(filepath, 'wb')
Wrote(k) == cause[k].dl \in {"dl_ok", "dl_write_error"}

\* C14: within one batch run no two work items write to the same destination
\* path, whatever selection produced the work list, so no file written by one
\* item is overwritten by another item of the run.
C14_NoWriteConflict ==
    BatchStarted =>
        \A j, k \in Items : (j # k /\ Wrote(j) /\ Wrote(k)) => DestPath(j) # DestPath(k)

\* C15: the write of a downloaded image is all-or-nothing: no path ever holds
\* a truncated or partial file, and an item whose write failed ends in
\* DownloadFailed with its path unchanged.
C15_AtomicWrite ==
    \A p \in DOMAIN files : files[p].exists => files[p].complete

\* C16: when the same (category, filename) is generated successfully twice in
\* sequence the file at the path is the second payload, whole; a later
\* generation that fails before its write leaves the earlier payload there:
\* the file is the payload of the last item that succeeded on that path,
\* as long as no later item of the path has reached its write.
C16_LastWriteWins ==
    BatchStarted =>
        \A k \in Items :
            ( /\ status[k] = "Succeeded"
              /\ \A j \in Items : (j > k /\ DestPath(j) = DestPath(k)) => ~Wrote(j) )
            => files[DestPath(k)] = [exists |-> TRUE, item |-> k, complete |-> TRUE]

\* player_character generated twice with success: the file is the second
\* payload
C16_Witness ==
    /\ ReportWritten
    /\ args.asset = << "player_character", "player_character" >>
    /\ status = << "Succeeded", "Succeeded" >>
    /\ files[DestPath(1)] = [exists |-> TRUE, item |-> 2, complete |-> TRUE]

\* every (category, name) of the registry, category by category
RegistryPairs ==
    UNION { { << registry[c].category, registry[c].assets[k].name >> :
                k \in 1..Len(registry[c].assets) } : c \in 1..Len(registry) }

\* C17: listing mode is a read-only query: with --list, whatever names or
\* category come with it, the registry is enumerated and no step sends a
\* generation or download request, pauses, makes a folder, writes a file or
\* changes the registry.
C17_ListingReadOnly ==
    [][ args.list =>
            /\ registry' = registry
            /\ dirs' = dirs
            /\ files' = files
            /\ pauses' = pauses
            /\ gen_req' = << >> /\ dl_req' = << >> /\ status' = << >>
            /\ assets_to_generate' = << >>
            /\ pc' = "done"
            /\ Len(listed') = Cardinality(RegistryPairs)
            /\ \A q \in RegistryPairs : \E k \in 1..Len(listed') : listed'[k] = q ]_vars

\* a listing asked for together with names and a category
C17_Witness ==
    /\ pc = "done"
    /\ args.list
    /\ args.asset = << "player_character" >>
    /\ args.category = "weapons"
    /\ Len(listed) = 11
    /\ dirs = {}

\* C18: every batch over a finite work list terminates: when every call
\* returns, the run goes on until the end of the work list, with every item
\* in a terminal state and the summary written. Stated on finite runs:
\* wherever main() can take no further step, it has returned, and if the loop
\* was entered every item is terminal and the summary is written.
C18_RunsToSummary ==
    (~ENABLED Next) =>
        /\ pc = "done"
        /\ BatchStarted => \A k \in Items : status[k] \in Terminal

\* every folder either script writes into is there
AllFoldersExist == {FOLDERS[c] : c \in DOMAIN FOLDERS} \subseteq dirs

\* C19: the destination folder of an item exists before its file is written:
\* every step that writes a file writes it into a folder that is there
\* already, made by create_folders before the loop or by the makedirs inside
\* download_image also when the run started with no folder at all; and making
\* a folder that exists changes nothing: no folder ever goes away, a step
\* that makes folders touches no file, and when every folder is there the
\* set of folders never changes.
C19_FolderBeforeWrite ==
    [][ /\ \A p \in DOMAIN files' :
            (p \notin DOMAIN files \/ files'[p] # files[p]) => p[1] \in dirs
        /\ dirs \subseteq dirs'
        /\ (dirs' # dirs => files' = files)
        /\ (AllFoldersExist => dirs' = dirs) ]_vars

\* batch_generate was started with no folder on disk and has written an
\* image: the folder of its category, and no other, is there
C19_Witness ==
    /\ pc = "batch_done"
    /\ dirs = {CategoryDir("characters")}
    /\ \E p \in DOMAIN files :
        /\ p[1] = CategoryDir("characters")
        /\ files[p].exists
        /\ results[<< "characters", p[2] >>] = p

\* resolution gave an empty work list
EmptySelection == pc # "start" /\ ~args.list /\ assets_to_generate = << >>

\* C20: when resolution yields an empty work list (only unknown names, or an
\* unknown category) the run stops before any side effect: no generation or
\* download request, no pause, no folder made, no file written.
C20_EmptySelectionStops ==
    [][ EmptySelection =>
            /\ status = << >> /\ gen_req = << >> /\ dl_req = << >> /\ pauses = 0
            /\ status' = << >> /\ gen_req' = << >> /\ dl_req' = << >> /\ pauses' = 0
            /\ dirs' = dirs
            /\ files' = files
            /\ pc' = "done" ]_vars

\* only an unknown name was given: main has returned and no folder exists
C20_Witness ==
    /\ pc = "done"
    /\ ~args.list
    /\ args.asset = << "nonexistent_asset" >>
    /\ warnings = << << "AssetNotFound", "nonexistent_asset" >> >>
    /\ dirs = {}
    /\ status = << >>

\* every (category, name) of batch_generate's argument
PromptPairs ==
    UNION { { << prompts_dict[c].category, prompts_dict[c].prompts[k] >> :
                k \in 1..Len(prompts_dict[c].prompts) } : c \in 1..Len(prompts_dict) }

\* batch_generate has returned
BatchReturned == pc = "batch_done"

\* C21: batch_generate returns a mapping with exactly one entry per
\* (category, name) of its input and no others; the entry is a file path
\* exactly when both the generation and the download of that item succeeded,
\* and None otherwise; a path that is returned is the path of the whole file
\* the item wrote.
C21_ResultsComplete ==
    BatchReturned =>
        /\ DOMAIN results = PromptPairs
        /\ Cardinality(PromptPairs) = total_count
        /\ \A k \in 1..total_count :
            LET item == ItemAt(prompts_dict, 1, k)
            IN  /\ (results[item] # NoFilepath)
                        <=> (cause[k].gen = "ok" /\ cause[k].dl = "dl_ok")
                /\ results[item] # NoFilepath =>
                        /\ results[item] \in DOMAIN files
                        /\ files[results[item]] = [exists |-> TRUE, item |-> k, complete |-> TRUE]
                        /\ results[item][1] = CategoryDir(item[1])
                        /\ results[item][2] = item[2]

\* a batch over three categories: one item succeeded, one failed at
\* generation, one failed at its download
C21_Witness ==
    /\ BatchReturned
    /\ Len(prompts_dict) = 3
    /\ total_count = 3
    /\ results[<< "ui_elements", "health_bar_frame" >>] # NoFilepath
    /\ results[<< "characters", "basic_ghost" >>] = NoFilepath
    /\ cause[2].gen = "no_url"
    /\ results[<< "weapons", "flying_sword" >>] = NoFilepath
    /\ cause[3].dl = "dl_write_error"

\* both clients have been run against the service behaviour
BothCalled == asset_client # NotCalled /\ jimeng_client # NotCalled

\* C22: the two generation clients are outcome-equivalent: against the same
\* service behaviour (generation status and body, download status and
\* result) AssetGenerator.generate_image and
\* JimengImageGenerator.generate_image agree on whether the item succeeds or
\* fails and on whether a download request is sent.
C22_ClientsAgree ==
    BothCalled =>
        /\ asset_client.outcome = jimeng_client.outcome
        /\ asset_client.download = jimeng_client.download

\* C23: in the migration copy tool a dry run changes nothing on disk: with
\* --dry-run no step deletes or copies a folder, copies a file or writes a
\* template, whichever source paths exist or are missing, so both project
\* trees stay as they were; and in every mode the success counter never
\* exceeds the total of folder plus file operations.
C23_DryRunReadOnly ==
    [][ /\ dry_run => (target_disk' = target_disk /\ source_disk' = source_disk)
        /\ success_count <= total_operations
        /\ success_count' <= total_operations' ]_vars

\* a dry run over a populated target has gone through all three loops: one
\* folder or file was missing in the source, every template was there, and
\* the target still holds what it held
C23_Witness ==
    /\ pc = "migrated"
    /\ dry_run
    /\ total_operations = Len(COPY_FOLDERS) + Len(COPY_FILES)
    /\ success_count = total_operations - 1
    /\ \A k \in 1..Len(TEMPLATE_SCRIPTS) : Exists(source_disk, TEMPLATE_SCRIPTS[k][2])
    /\ target_disk = [root |-> TRUE, paths |-> Populated]

====
